---- MODULE Spec2Model ----
(***************************************************************************)
(* Model of src/src/nextcloud/NextcloudClient.ts: the NextcloudClient      *)
(* pipeline uploadFiles = uploadSpec -> zipFiles -> upload -> shareFile.   *)
(*                                                                         *)
(* Paths and response bodies are sequences of one-character strings, so    *)
(* that String.startsWith, String.replace, path.normalize, path.resolve,   *)
(* path.join and the share regular expression are computed character by    *)
(* character, as the code computes them.                                   *)
(***************************************************************************)
EXTENDS Integers, Sequences, FiniteSets, TLC

(***************************************************************************)
(* Bounds of the model.                                                    *)
(***************************************************************************)
\* longest candidate list handed to uploadSpec in SpecPaths
MaxFiles == 2
\* longest share response body (in tokens) in SpecShare
MaxBody == 5
\* number of uploadFiles invocations followed in Spec
MaxCalls == 2
\* number of NextcloudClient instances constructed in Spec
MaxClients == 1

(***************************************************************************)
(* Strings as character sequences.                                         *)
(***************************************************************************)
Sep == "/"

StartsWith(s, prefix) ==
    /\ Len(prefix) <= Len(s)
    /\ SubSeq(s, 1, Len(prefix)) = prefix

\* String.prototype.indexOf(pat): the first index (1-based) at which pat
\* occurs in s, 0 when it does not occur.
IndexOf(s, pat) ==
    LET hits == { i \in 1..(Len(s) - Len(pat) + 1) :
                      SubSeq(s, i, i + Len(pat) - 1) = pat }
    IN  IF hits = {} THEN 0
        ELSE CHOOSE i \in hits : \A j \in hits : i <= j

\* String.prototype.replace(pat, ''), pat a string: removes the first
\* occurrence of pat, and only the first.
ReplaceFirst(s, pat) ==
    LET i == IndexOf(s, pat)
    IN  IF i = 0 THEN s
        ELSE SubSeq(s, 1, i - 1) \o SubSeq(s, i + Len(pat), Len(s))

(***************************************************************************)
(* Node's posix path module.                                               *)
(***************************************************************************)
RECURSIVE SplitAcc(_, _, _, _)
SplitAcc(p, i, cur, acc) ==
    IF i > Len(p) THEN Append(acc, cur)
    ELSE IF p[i] = Sep THEN SplitAcc(p, i + 1, <<>>, Append(acc, cur))
    ELSE SplitAcc(p, i + 1, Append(cur, p[i]), acc)

\* p.split('/')
Split(p) == SplitAcc(p, 1, <<>>, <<>>)

Dot == <<".">>
DotDot == <<".", ".">>

\* normalizeString of path.js: drops empty and "." segments and resolves
\* ".." against the segment before it; above the top, ".." is dropped for an
\* absolute path and kept for a relative one.
RECURSIVE NormSegs(_, _, _, _)
NormSegs(segs, i, acc, absolute) ==
    IF i > Len(segs) THEN acc
    ELSE IF segs[i] = <<>> \/ segs[i] = Dot
         THEN NormSegs(segs, i + 1, acc, absolute)
    ELSE IF segs[i] = DotDot
         THEN IF Len(acc) > 0 /\ acc[Len(acc)] # DotDot
              THEN NormSegs(segs, i + 1, SubSeq(acc, 1, Len(acc) - 1), absolute)
              ELSE IF absolute
                   THEN NormSegs(segs, i + 1, acc, absolute)
                   ELSE NormSegs(segs, i + 1, Append(acc, DotDot), absolute)
    ELSE NormSegs(segs, i + 1, Append(acc, segs[i]), absolute)

RECURSIVE JoinSegs(_)
JoinSegs(segs) ==
    IF Len(segs) = 0 THEN <<>>
    ELSE IF Len(segs) = 1 THEN segs[1]
    ELSE segs[1] \o <<Sep>> \o JoinSegs(Tail(segs))

IsAbsolute(p) == Len(p) > 0 /\ p[1] = Sep

\* path.normalize(p)
Normalize(p) ==
    IF Len(p) = 0 THEN Dot
    ELSE LET absolute == IsAbsolute(p)
             trailing == p[Len(p)] = Sep
             body     == JoinSegs(NormSegs(Split(p), 1, <<>>, absolute))
             body1    == IF Len(body) = 0 /\ ~absolute THEN Dot ELSE body
             body2    == IF Len(body1) > 0 /\ trailing
                         THEN body1 \o <<Sep>> ELSE body1
         IN  IF absolute THEN <<Sep>> \o body2 ELSE body2

\* process.cwd() of the process that runs the client
Cwd == <<"/", "a">>

\* path.resolve(p): absolute, normalized, no trailing separator
Resolve(p) ==
    LET full == IF IsAbsolute(p) THEN p ELSE Cwd \o <<Sep>> \o p
    IN  <<Sep>> \o JoinSegs(NormSegs(Split(full), 1, <<>>, TRUE))

\* path.join(a, b): the non-empty arguments joined by '/' and normalized
PathJoin(a, b) ==
    LET joined == IF Len(a) = 0 THEN b
                  ELSE IF Len(b) = 0 THEN a
                  ELSE a \o <<Sep>> \o b
    IN  IF Len(joined) = 0 THEN Dot ELSE Normalize(joined)

\* path.dirname(p) for a normalized p without trailing separator
Dirname(p) ==
    LET seps == { i \in 1..Len(p) : p[i] = Sep }
    IN  IF seps = {} THEN Dot
        ELSE LET last == CHOOSE i \in seps : \A j \in seps : j <= i
             IN  IF last = 1 THEN <<Sep>> ELSE SubSeq(p, 1, last - 1)

(***************************************************************************)
(* The local file system the client runs on: the caller's files.  Paths    *)
(* are absolute and normalized.  /a/b2 is a sibling of /a/b whose name     *)
(* starts with the name of /a/b.                                           *)
(***************************************************************************)
Dirs ==
    { <<"/">>,
      <<"/", "a">>,
      <<"/", "a", "/", "b">>,
      <<"/", "a", "/", "b", "/", "d">>,
      <<"/", "a", "/", "b", "2">>,
      <<"/", "a", "/", "c">> }

Files ==
    { <<"/", "a", "/", "b", "/", "f">>,
      <<"/", "a", "/", "b", "/", "d", "/", "f">>,
      <<"/", "a", "/", "b", "2", "/", "f">>,
      <<"/", "a", "/", "c", "/", "f">> }

\* fsSync.existsSync(p); relative paths are taken from the working directory
ExistsSync(p) == Resolve(p) \in Files \cup Dirs

\* fsSync.lstatSync(p).isDirectory(), for a p that exists
IsDirectory(p) == Resolve(p) \in Dirs

(***************************************************************************)
(* Inputs: root directories, artifact names and candidate paths, as the    *)
(* caller may write them (absolute or relative, normalized or not).        *)
(***************************************************************************)
Roots ==
    { <<"/", "a", "/", "b">>,
      <<"b", "/">>,
      <<"/", "a", "/", "b", "/", "d">>,
      <<"/">>,
      <<"/", "a", "/", "x">>,
      <<"/", "a", "/", "b", "/", "f">> }

Artifacts == { <<"r">>, <<"r", "2">> }

Candidates ==
    { <<"/", "a", "/", "b", "/", "f">>,
      <<"/", "a", "/", "b", "/", "d", "/", "f">>,
      <<"/", "a", "/", "b", "/", "d">>,
      <<"/", "a", "/", "b", "2", "/", "f">>,
      <<"/", "a", "/", "c", "/", "f">>,
      <<"/", "a", "/", "b", "/", "x">>,
      <<"b", "/", "f">>,
      <<"/", "a", "/", "b", "/", ".", ".", "/", "b", "2", "/", "f">>,
      <<"/", "a", "/", "b", "/", "/", "d", "/", ".", "/", "f">>,
      <<"/", "a", "/", "b">>,
      <<"b", "/", "d", "/">> }

\* all sequences over S of length at most n
SeqsUpTo(S, n) == UNION { [1..k -> S] : k \in 0..n }

(***************************************************************************)
(* uploadSpec (lines 51-114).  The errors are the throw statements of the  *)
(* code, named as the error taxonomy names them:                           *)
(*   lines 53-58  InvalidRoot      line 83  MissingFile                    *)
(*   line 90      PathEscapesRoot                                          *)
(***************************************************************************)
Thrown(e) == [err |-> e, specs |-> <<>>]

\* lines 89: the containment test of the code
InsideRoot(file, root) == StartsWith(file, root)

\* lines 93, 104-107: the FileSpec pushed for an accepted file
FileSpec(file, root, art) ==
    [ absolutePath |-> file,
      uploadPath   |-> PathJoin(art, ReplaceFirst(file, root)) ]

\* a push that puts the new entry first
PushFront(specifications, entry) == <<entry>> \o specifications

\* line 104: specifications.push(...)
Push(specifications, entry) == Append(specifications, entry)

\* lines 85, 108-111: a directory candidate is skipped
Skipped(file) == IsDirectory(file)

\* a loop that passes over a candidate that does not exist
RECURSIVE UploadSpecLoopLenient(_, _, _, _, _)
UploadSpecLoopLenient(root, art, fs, i, specifications) ==
    IF i > Len(fs) THEN [err |-> "none", specs |-> specifications]
    ELSE IF ~ExistsSync(fs[i])
         THEN UploadSpecLoopLenient(root, art, fs, i + 1, specifications)
    ELSE IF ~Skipped(fs[i])
         THEN LET file == Resolve(Normalize(fs[i]))
              IN  IF ~InsideRoot(file, root) THEN Thrown("PathEscapesRoot")
                  ELSE UploadSpecLoopLenient(root, art, fs, i + 1,
                           Push(specifications, FileSpec(file, root, art)))
    ELSE UploadSpecLoopLenient(root, art, fs, i + 1, specifications)

RECURSIVE UploadSpecLoop(_, _, _, _, _)
UploadSpecLoop(root, art, fs, i, specifications) ==
    IF i > Len(fs) THEN [err |-> "none", specs |-> specifications]
    ELSE IF ~ExistsSync(fs[i]) THEN Thrown("MissingFile")
    ELSE IF ~Skipped(fs[i])
         THEN LET file == Resolve(Normalize(fs[i]))
              IN  IF ~InsideRoot(file, root) THEN Thrown("PathEscapesRoot")
                  ELSE UploadSpecLoop(root, art, fs, i + 1,
                           Push(specifications, FileSpec(file, root, art)))
    ELSE UploadSpecLoop(root, art, fs, i + 1, specifications)

UploadSpec(rootDir, art, fs) ==
    IF ~ExistsSync(rootDir) THEN Thrown("InvalidRoot")
    ELSE IF ~IsDirectory(rootDir) THEN Thrown("InvalidRoot")
    ELSE UploadSpecLoop(Resolve(Normalize(rootDir)), art, fs, 1, <<>>)

(***************************************************************************)
(* shareFile's parse of the response (lines 200-210).  A body is a         *)
(* sequence of tokens: the two tags, a line terminator, and any other      *)
(* character.                                                              *)
(***************************************************************************)
UrlOpen == "<url>"
UrlClose == "</url>"
Newline == "\n"
BodyTokens == { UrlOpen, UrlClose, Newline, "x" }

\* res.status, which the code does not read
HttpStatuses == { 200, 404 }

\* the ends j of a match of <url>.*</url> that starts at i: '.' matches any
\* character but a line terminator
MatchEnds(body, i) ==
    { j \in (i + 1)..Len(body) :
          /\ body[j] = UrlClose
          /\ \A k \in (i + 1)..(j - 1) : body[k] # Newline }

\* re.exec(result) (lines 202-203): the leftmost start that matches, and
\* from it the longest match ('.*' is greedy); <<>> stands for null
RegexExec(body) ==
    LET starts == { i \in 1..Len(body) :
                        body[i] = UrlOpen /\ MatchEnds(body, i) # {} }
    IN  IF starts = {} THEN <<>>
        ELSE LET i == CHOOSE s \in starts : \A t \in starts : s <= t
                 j == CHOOSE e \in MatchEnds(body, i) :
                          \A f \in MatchEnds(body, i) : f <= e
             IN  <<SubSeq(body, i + 1, j - 1)>>

\* lines 205-210: the captured group, or the throw when it is missing or ''
ParseShare(body) ==
    LET match == RegexExec(body)
    IN  IF match = <<>> \/ match[1] = <<>>
        THEN [kind |-> "error", err |-> "ShareParseFailed", url |-> <<>>]
        ELSE [kind |-> "url", err |-> "none", url |-> match[1]]

(***************************************************************************)
(* State.                                                                  *)
(***************************************************************************)
VARIABLES
    nextGuid,       \* the next value uuidv4() returns
    clients,        \* number of NextcloudClient instances constructed
    guid,           \* this.guid of the live instance (0: none constructed)
    rootDirectory,  \* this.rootDirectory
    artifact,       \* this.artifact
    calls,          \* number of uploadFiles invocations started
    sessions,       \* the session identifier each invocation used, in order
    files,          \* the argument of uploadFiles / uploadSpec
    noCompress,     \* the compression mode the caller asked for (spec.md 6)
    spec,           \* what uploadSpec returned or threw
    pc,             \* the position of the running invocation
    result,         \* what the invocation returned or threw
    failedAt,       \* the stage that threw ("none" while nothing threw)
    ops,            \* the operations this invocation has started
    ci,             \* index of the for loop of zipFiles
    copies,         \* the fs.copyFile promises dispatched by this invocation
    strays,         \* copies of finished invocations that are still running
    stagedDirs,     \* directories under os.tmpdir()/<guid>/artifact-<name>
    staged,         \* files under os.tmpdir()/<guid>/artifact-<name>
    archives,       \* guids whose <name>.zip exists on the local disk
    zipEvents,      \* events the archive write stream has emitted
    zipListening,   \* the listeners of line 148 are attached
    existsCalls,    \* davClient.exists calls of this invocation
    existsResult,   \* what davClient.exists answered ("none" before)
    createCalls,    \* davClient.createDirectory calls of this invocation
    remoteDirs,     \* guids whose /artifacts/<guid> exists on the server
    remoteFiles,    \* guids whose /artifacts/<guid>/<name>.zip was written
    localEvents,    \* events the local read stream has emitted
    remoteEvents,   \* events the remote write stream has emitted
    remoteListening,\* the listeners of line 176 are attached
    lost,           \* events emitted while no listener was attached
    uploaded,       \* upload returned its remote path in this invocation
    shareRequests,  \* share requests issued by this invocation
    shareBody,      \* the response body of the share request
    httpStatus,     \* the HTTP status of the share response
    paths,          \* the remote path upload wrote to, returned, and shared
    archived,       \* the files the archive of this invocation was made of
    written         \* local paths the instances have created or written

clientVars == <<nextGuid, clients, guid, rootDirectory, artifact>>
callVars   == <<calls, sessions, files, noCompress, spec, pc, result, failedAt,
                ops>>
zipVars    == <<ci, copies, strays, stagedDirs, staged, archives, zipEvents,
                zipListening>>
uploadVars == <<existsCalls, existsResult, createCalls, remoteDirs, remoteFiles,
                localEvents, remoteEvents, remoteListening, lost, uploaded>>
shareVars  == <<shareRequests, shareBody, httpStatus>>
traceVars  == <<paths, archived, written>>
vars == <<clientVars, callVars, zipVars, uploadVars, shareVars, traceVars>>

NoResult == [kind |-> "none", err |-> "none", url |-> <<>>]
Failure(e) == [kind |-> "error", err |-> e, url |-> <<>>]
NoSpec == [err |-> "unset", specs |-> <<>>]
NoPaths == [put |-> <<>>, returned |-> <<>>, shared |-> <<>>]

\* everything but the inputs, as it is before any client is constructed
Blank ==
    /\ nextGuid = 1 /\ clients = 0 /\ guid = 0
    /\ calls = 0 /\ sessions = <<>> /\ noCompress = FALSE
    /\ spec = NoSpec /\ result = NoResult /\ failedAt = "none" /\ ops = {}
    /\ ci = 0 /\ copies = <<>> /\ strays = {}
    /\ stagedDirs = {} /\ staged = {} /\ archives = {}
    /\ zipEvents = {} /\ zipListening = FALSE
    /\ existsCalls = 0 /\ existsResult = "none" /\ createCalls = 0
    /\ remoteDirs = {} /\ remoteFiles = {}
    /\ localEvents = {} /\ remoteEvents = {} /\ remoteListening = FALSE
    /\ lost = {} /\ uploaded = FALSE /\ shareRequests = 0
    /\ paths = NoPaths /\ archived = {} /\ written = {}

(***************************************************************************)
(* SpecPaths: uploadSpec as a function of its inputs.                      *)
(***************************************************************************)
InitPaths ==
    /\ Blank
    /\ rootDirectory \in Roots
    /\ artifact \in Artifacts
    /\ files \in SeqsUpTo(Candidates, MaxFiles)
    /\ shareBody = <<>> /\ httpStatus = 200
    /\ pc = "paths"

CallUploadSpec ==
    /\ pc = "paths"
    /\ spec' = UploadSpec(rootDirectory, artifact, files)
    /\ pc' = "pathsDone"
    /\ UNCHANGED <<clientVars, calls, sessions, files, noCompress, result,
                   failedAt, ops, zipVars, uploadVars, shareVars,
                   traceVars>>

NextPaths == CallUploadSpec

SpecPaths == InitPaths /\ [][NextPaths]_vars

(***************************************************************************)
(* SpecShare: the parse of shareFile as a function of the response.        *)
(***************************************************************************)
InitShare ==
    /\ Blank
    /\ rootDirectory = <<"/", "a", "/", "b">>
    /\ artifact = <<"r">>
    /\ files = <<>>
    /\ shareBody \in SeqsUpTo(BodyTokens, MaxBody)
    /\ httpStatus \in HttpStatuses
    /\ pc = "parse"

\* lines 200-210: res.text() is read whatever res.status is
CallParseShare ==
    /\ pc = "parse"
    /\ result' = ParseShare(shareBody)
    /\ pc' = "parseDone"
    /\ UNCHANGED <<clientVars, calls, sessions, files, noCompress, spec,
                   failedAt, ops, zipVars, uploadVars, shareVars,
                   traceVars>>

NextShare == CallParseShare

SpecShare == InitShare /\ [][NextShare]_vars

(***************************************************************************)
(* Spec: the pipeline.  One NextcloudClient instance is live at a time,    *)
(* and its uploadFiles invocations run one after the other.                *)
(*                                                                         *)
(* Errors that the code lets through from the libraries are named by the   *)
(* stage they come from: StagingFailed (fs.mkdir, fs.copyFile, fs.readdir, *)
(* fs.stat in zipFiles), ArchiveFailed (zip), TransferFailed (upload),     *)
(* ShareRequestFailed (fetch), ShareParseFailed (line 207).                *)
(***************************************************************************)
PipelineRoots == { <<"/", "a", "/", "b">>, <<"/", "a", "/", "x">> }

\* the artifact names given to the constructor: a plain name, and one that
\* climbs out of the directory it is joined to ("../../../a/b")
PipelineArtifacts ==
    { <<"r">>,
      <<".", ".", "/", ".", ".", "/", ".", ".", "/", "a", "/", "b">> }

\* the root directories and artifact names a client is constructed with
PipelineClients ==
    { c \in PipelineRoots \X PipelineArtifacts :
          c[2] = <<"r">> \/ c[1] = <<"/", "a", "/", "b">> }

PipelineFiles ==
    { << <<"/", "a", "/", "b", "/", "f">> >>,
      << <<"/", "a", "/", "b", "/", "f">>,
         <<"/", "a", "/", "b", "/", "d", "/", "f">> >>,
      << <<"/", "a", "/", "c", "/", "f">> >>,
      << <<"/", "a", "/", "b", "/", "x">> >>,
      << <<"/", "a", "/", "b", "/", "f">>,
         <<"/", "a", "/", "b", "/", "x">> >>,
      << <<"/", "a", "/", "c", "/", "f">>,
         <<"/", "a", "/", "b", "/", "x">> >> }

PipelineBodies ==
    { <<"x", UrlOpen, "x", UrlClose, "x">>, <<"x">> }

Init ==
    /\ Blank
    /\ rootDirectory = <<>> /\ artifact = <<>> /\ files = <<>>
    /\ shareBody = <<>> /\ httpStatus = 200
    /\ pc = "idle"

\* no invocation is running
Settled == pc \in { "idle", "done" }

\* a throw out of uploadFiles: the promise rejects
Throw(e, stage) ==
    /\ pc' = "done"
    /\ result' = Failure(e)
    /\ failedAt' = stage

\* d and the directories above it, as fs.mkdir(d, {recursive: true}) makes
DirsUpTo(d) ==
    { SubSeq(d, 1, i - 1) : i \in { j \in 2..Len(d) : d[j] = Sep } } \cup { d }

\* os.tmpdir()
Tmpdir == <<"/", "t">>

\* the session identifier as it appears in a path: one segment
GuidStr(g) == ToString(g)

\* line 117: tempArtifactDir = path.join(os.tmpdir(), this.guid)
TempArtifactDir(g) == PathJoin(Tmpdir, <<GuidStr(g)>>)

\* line 118: artifactPath = path.join(tempArtifactDir, `artifact-${artifact}`)
ArtifactPath(g, art) == PathJoin(TempArtifactDir(g), <<"artifact-">> \o art)

\* line 119: path.join(artifactPath, this.artifact), the directory archived
StagingDir(g, art) == PathJoin(ArtifactPath(g, art), art)

\* line 122: dstpath = path.join(artifactPath, spec.uploadPath)
CopyTarget(s, g, art) == PathJoin(ArtifactPath(g, art), s.uploadPath)

\* line 134: archivePath = path.join(artifactPath, `${this.artifact}.zip`)
ArchivePath(g, art) ==
    PathJoin(ArtifactPath(g, art), art \o <<".", "z", "i", "p">>)

\* the directories fs.mkdir(d, {recursive: true}) creates: d and those above
\* it that are not there yet
MkdirMakes(d) == DirsUpTo(d) \ (Dirs \cup { Tmpdir })

\* lines 119, 135: the files below <artifactPath>/<artifact>, which is what
\* zip(path.join(artifactPath, this.artifact), archivePath) puts in the archive
StagedUnder(g, art) ==
    { c[2] : c \in { x \in staged : x[1] = g /\ StartsWith(x[2], art \o <<Sep>>) } }

\* line 131 has been reached: Promise.all holds the copies' rejections
Joined == "join" \in ops

\* line 124: fsSync.existsSync(dstDir), for the destination of s: a directory
\* the instances made, or one that was there before
DstDirExists(s) ==
    \/ <<guid, Dirname(s.uploadPath)>> \in stagedDirs
    \/ Dirname(CopyTarget(s, guid, artifact)) \in Dirs \cup { Tmpdir }

\* the invocation is suspended at line 125 with copies dispatched and no
\* handler on them
AwaitingMkdir ==
    /\ pc = "zipLoop"
    /\ ~DstDirExists(spec.specs[ci])

\* the state of an invocation that has not run yet; the copies of the last
\* invocation that are still running go on running
FreshInvocation ==
    /\ ci' = 0
    /\ copies' = <<>>
    /\ strays' = strays \cup
           { [dst |-> copies[k].dst, to |-> copies[k].to, handled |-> Joined] :
                 k \in { j \in 1..Len(copies) : copies[j].st = "pending" } }
    /\ zipEvents' = {} /\ zipListening' = FALSE
    /\ existsCalls' = 0 /\ existsResult' = "none" /\ createCalls' = 0
    /\ localEvents' = {} /\ remoteEvents' = {} /\ remoteListening' = FALSE
    /\ lost' = {} /\ uploaded' = FALSE
    /\ shareRequests' = 0 /\ shareBody' = <<>> /\ httpStatus' = 200
    /\ paths' = NoPaths /\ archived' = {}

\* lines 23-36: new NextcloudClient(...); the invocations of the instance it
\* replaces are the caller's past
Construct ==
    /\ Settled
    /\ clients < MaxClients
    /\ clients' = clients + 1
    /\ guid' = nextGuid
    /\ nextGuid' = nextGuid + 1
    /\ \E c \in PipelineClients : rootDirectory' = c[1] /\ artifact' = c[2]
    /\ pc' = "idle"
    /\ files' = <<>> /\ noCompress' = FALSE
    /\ spec' = NoSpec /\ result' = NoResult /\ failedAt' = "none"
    /\ ops' = {}
    /\ FreshInvocation
    /\ UNCHANGED <<calls, sessions, stagedDirs, staged, archives, remoteDirs,
                   remoteFiles, written>>

\* a stage that lets the first stage's throw pass
AfterResolveIgnoring(r) == "zipMkdir"

\* lines 40-42: uploadSpec throws out of uploadFiles, or zipFiles is called
AfterResolve(r) == IF r.err # "none" THEN "done" ELSE "zipMkdir"

\* lines 38-40: uploadFiles(files) up to its first await.  The code has no
\* compression parameter: what the caller asked for is recorded and not read.
UploadFiles ==
    /\ Settled
    /\ guid # 0
    /\ calls < MaxCalls
    /\ calls' = calls + 1
    /\ sessions' = Append(sessions, guid)
    /\ files' \in PipelineFiles
    /\ noCompress' \in BOOLEAN
    /\ spec' = UploadSpec(rootDirectory, artifact, files')
    /\ pc' = AfterResolve(spec')
    /\ result' = IF spec'.err # "none" THEN Failure(spec'.err) ELSE NoResult
    /\ failedAt' = IF spec'.err # "none" THEN "resolve" ELSE "none"
    /\ ops' = {}
    /\ FreshInvocation
    /\ UNCHANGED <<clientVars, stagedDirs, staged, archives, remoteDirs,
                   remoteFiles, written>>

\* line 120-121: the loop goes on, or line 131 is reached
LoopPc(i) == IF i > Len(spec.specs) THEN "zipJoin" ELSE "zipLoop"

\* line 131: Promise.all(copies) is called in the turn the loop ends
LoopOps(i) == IF i > Len(spec.specs) THEN { "join" } ELSE {}

\* lines 117-119: await fs.mkdir(<artifactPath>/<artifact>, recursive)
ZipMkdir ==
    /\ pc = "zipMkdir"
    /\ \/ /\ stagedDirs' = stagedDirs \cup { <<guid, artifact>> }
          /\ written' = written \cup MkdirMakes(StagingDir(guid, artifact))
          /\ ci' = 1
          /\ pc' = LoopPc(1)
          /\ ops' = ops \cup { "mkdir" } \cup LoopOps(1)
          /\ UNCHANGED <<result, failedAt>>
       \/ /\ ops' = ops \cup { "mkdir" }
          /\ Throw("StagingFailed", "archive")
          /\ UNCHANGED <<stagedDirs, ci, written>>
    /\ UNCHANGED <<clientVars, calls, sessions, files, noCompress, spec,
                   copies, strays, staged, archives, zipEvents, zipListening,
                   uploadVars, shareVars, paths, archived>>

\* lines 121-129: one iteration: the destination directory is made when it
\* is not there, and the copy is dispatched without being awaited
ZipLoop ==
    /\ pc = "zipLoop"
    /\ LET s == spec.specs[ci]
           dstDir == Dirname(s.uploadPath)
           to == CopyTarget(s, guid, artifact)
       IN  \/ /\ stagedDirs' = stagedDirs \cup
                     { <<guid, d>> : d \in DirsUpTo(dstDir) }
              /\ written' = written \cup MkdirMakes(Dirname(to))
              /\ copies' = Append(copies,
                     [dst |-> <<guid, s.uploadPath>>, to |-> to,
                      st |-> "pending"])
              /\ ci' = ci + 1
              /\ pc' = LoopPc(ci + 1)
              /\ ops' = ops \cup { "copy" } \cup LoopOps(ci + 1)
              /\ UNCHANGED <<result, failedAt>>
           \/ /\ ~DstDirExists(s)
              /\ Throw("StagingFailed", "archive")
              /\ UNCHANGED <<stagedDirs, copies, ci, ops, written>>
    /\ UNCHANGED <<clientVars, calls, sessions, files, noCompress, spec,
                   strays, staged, archives, zipEvents, zipListening,
                   uploadVars, shareVars, paths, archived>>

\* fs.copyFile of line 128 completes
CopyDone ==
    \E k \in 1..Len(copies) :
        /\ copies[k].st = "pending"
        /\ copies' = [copies EXCEPT ![k].st = "done"]
        /\ staged' = staged \cup { copies[k].dst }
        /\ written' = written \cup { copies[k].to }
        /\ UNCHANGED <<clientVars, callVars, ci, strays, stagedDirs, archives,
                       zipEvents, zipListening, uploadVars, shareVars,
                       paths, archived>>

\* fs.copyFile of line 128 fails.  Until line 131 is reached nothing handles
\* the rejection: when that happens while line 125 is awaited, the unhandled
\* rejection may end the process.
CopyFail ==
    \E k \in 1..Len(copies) :
        /\ copies[k].st = "pending"
        /\ copies' = [copies EXCEPT ![k].st = "failed"]
        /\ pc' \in IF AwaitingMkdir THEN { pc, "crashed" } ELSE { pc }
        /\ UNCHANGED <<clientVars, calls, sessions, files, noCompress, spec,
                       result, failedAt, ops, ci, strays, stagedDirs, staged,
                       archives, zipEvents, zipListening, uploadVars,
                       shareVars, traceVars>>

\* a copy of an earlier invocation, which threw before the copy ended,
\* completes or fails; the failure of one that line 131 never took may end
\* the process, and with it the invocation that is running
StrayCopyEnds ==
    \E c \in strays :
        /\ strays' = strays \ { c }
        /\ \/ /\ staged' = staged \cup { c.dst }
              /\ written' = written \cup { c.to }
              /\ UNCHANGED pc
           \/ /\ pc' \in IF c.handled \/ Settled THEN { pc }
                                                ELSE { pc, "crashed" }
              /\ UNCHANGED <<staged, written>>
        /\ UNCHANGED <<clientVars, calls, sessions, files, noCompress, spec,
                       result, failedAt, ops, ci, copies, stagedDirs,
                       archives, zipEvents, zipListening, uploadVars,
                       shareVars, paths, archived>>

AnyCopy(st) == \E k \in 1..Len(copies) : copies[k].st = st

\* a join that lets the stage go on as soon as one copy is done
AllCopiedRace == AnyCopy("done")

\* line 131: Promise.all(copies) resolves
AllCopied == ~AnyCopy("failed") /\ ~AnyCopy("pending")

\* line 131: await Promise.all(copies): rejects with the first failure,
\* resolves when every copy is done
ZipJoin ==
    /\ pc = "zipJoin"
    /\ \/ /\ AnyCopy("failed")
          /\ Throw("StagingFailed", "archive")
       \/ /\ AllCopied
          /\ pc' = "zipReaddir"
          /\ UNCHANGED <<result, failedAt>>
    /\ UNCHANGED <<clientVars, calls, sessions, files, noCompress, spec, ops,
                   zipVars, uploadVars, shareVars,
                   traceVars>>

\* line 132: await fs.readdir(...); lines 134-135, 142-145: the archive and
\* its write stream are created and archive.finalize() is called
ZipStart ==
    /\ pc = "zipReaddir"
    /\ \/ /\ archives' = archives \cup { guid }
          /\ archived' = StagedUnder(guid, artifact)
          /\ written' = written \cup { ArchivePath(guid, artifact) }
          /\ ops' = ops \cup { "readdir", "compress" }
          /\ pc' = "zipFinalize"
          /\ UNCHANGED <<result, failedAt>>
       \/ /\ ops' = ops \cup { "readdir" }
          /\ Throw("StagingFailed", "archive")
          /\ UNCHANGED <<archives, archived, written>>
    /\ UNCHANGED <<clientVars, calls, sessions, files, noCompress, spec,
                   ci, copies, strays, stagedDirs, staged, zipEvents,
                   zipListening, uploadVars, shareVars, paths>>

\* line 145: await archive.finalize() resolves and lines 147-149 attach the
\* listeners, or it rejects
ZipFinalized ==
    /\ pc = "zipFinalize"
    /\ \/ /\ zipListening' = TRUE
          /\ pc' = "zipWait"
          /\ UNCHANGED <<result, failedAt>>
       \/ /\ Throw("ArchiveFailed", "archive")
          /\ UNCHANGED zipListening
    /\ UNCHANGED <<clientVars, calls, sessions, files, noCompress, spec, ops,
                   ci, copies, strays, stagedDirs, staged, archives,
                   zipEvents, uploadVars, shareVars,
                   traceVars>>

\* the archive's write stream emits 'error' (and, destroyed, 'close').  With
\* the listener of line 148 attached the promise rejects.  With none attached
\* the events are gone; the unhandled 'error' may end the process.
ZipStreamError ==
    /\ pc \in { "zipFinalize", "zipWait" }
    /\ zipEvents = {}
    /\ zipEvents' = { "error", "close" }
    /\ IF zipListening
       THEN /\ Throw("ArchiveFailed", "archive")
            /\ UNCHANGED lost
       ELSE /\ lost' = lost \cup { "zipError", "zipClose" }
            /\ pc' \in { pc, "crashed" }
            /\ UNCHANGED <<result, failedAt>>
    /\ UNCHANGED <<clientVars, calls, sessions, files, noCompress, spec, ops,
                   ci, copies, strays, stagedDirs, staged, archives,
                   zipListening, existsCalls, existsResult, createCalls,
                   remoteDirs, remoteFiles, localEvents, remoteEvents,
                   remoteListening, uploaded, shareVars,
                   traceVars>>

\* the archive's write stream emits 'close': it does so after the data
\* ended, which is after finalize() resolved; line 148 resolves
ZipStreamClose ==
    /\ pc = "zipWait"
    /\ zipEvents = {}
    /\ zipEvents' = { "close" }
    /\ pc' = "zipStat"
    /\ UNCHANGED <<clientVars, calls, sessions, files, noCompress, spec, ops,
                   result, failedAt, ci, copies, strays, stagedDirs, staged,
                   archives, zipListening, uploadVars, shareVars,
                   traceVars>>

\* line 136-138: await fs.stat(archivePath); zipFiles returns archivePath
ZipStat ==
    /\ pc = "zipStat"
    /\ ops' = ops \cup { "statZip" }
    /\ \/ /\ guid \in archives
          /\ pc' = "upExists"
          /\ UNCHANGED <<result, failedAt>>
       \/ Throw("StagingFailed", "archive")
    /\ UNCHANGED <<clientVars, calls, sessions, files, noCompress, spec,
                   zipVars, uploadVars, shareVars,
                   traceVars>>

\* a test that asks for the directory whatever exists answered
NeedsCreateAlways(answer) == TRUE

\* line 155: if (!(await this.davClient.exists(remoteFileDir)))
NeedsCreate(answer) == answer = "false"

\* line 153: remoteFileDir = `/artifacts/${this.guid}`
RemoteFileDir(g) == <<"/", "artifacts", "/", GuidStr(g)>>

\* line 160: remoteFilePath = `${remoteFileDir}/${this.artifact}.zip`
RemoteFilePath(g, art) == RemoteFileDir(g) \o <<"/">> \o art \o <<".", "z", "i", "p">>

\* line 153-155: await davClient.exists('/artifacts/<guid>')
UpExists ==
    /\ pc = "upExists"
    /\ ops' = ops \cup { "exists" }
    /\ existsCalls' = existsCalls + 1
    /\ \/ /\ existsResult' = IF guid \in remoteDirs THEN "true" ELSE "false"
          /\ pc' = IF NeedsCreate(existsResult') THEN "upCreate" ELSE "upStat"
          /\ UNCHANGED <<result, failedAt>>
       \/ /\ Throw("TransferFailed", "transport")
          /\ UNCHANGED existsResult
    /\ UNCHANGED <<clientVars, calls, sessions, files, noCompress, spec,
                   zipVars, createCalls, remoteDirs, remoteFiles, localEvents,
                   remoteEvents, remoteListening, lost, uploaded, shareVars,
                   traceVars>>

\* line 157: await davClient.createDirectory('/artifacts/<guid>', recursive)
UpCreate ==
    /\ pc = "upCreate"
    /\ ops' = ops \cup { "createDirectory" }
    /\ createCalls' = createCalls + 1
    /\ \/ /\ remoteDirs' = remoteDirs \cup { guid }
          /\ pc' = "upStat"
          /\ UNCHANGED <<result, failedAt>>
       \/ /\ Throw("TransferFailed", "transport")
          /\ UNCHANGED remoteDirs
    /\ UNCHANGED <<clientVars, calls, sessions, files, noCompress, spec,
                   zipVars, existsCalls, existsResult, remoteFiles,
                   localEvents, remoteEvents, remoteListening, lost, uploaded,
                   shareVars,
                   traceVars>>

\* lines 160-172: await fs.stat(file); then, in one turn of the event loop,
\* both streams are created and piped and the listeners of the local stream
\* are attached
UpStartTransfer ==
    /\ pc = "upStat"
    /\ \/ /\ guid \in archives
          /\ ops' = ops \cup { "statUpload", "put" }
          /\ paths' = [paths EXCEPT !.put = RemoteFilePath(guid, artifact)]
          /\ pc' = "upWaitLocal"
          /\ UNCHANGED <<result, failedAt>>
       \/ /\ ops' = ops \cup { "statUpload" }
          /\ Throw("TransferFailed", "transport")
          /\ UNCHANGED paths
    /\ UNCHANGED <<clientVars, calls, sessions, files, noCompress, spec,
                   zipVars, uploadVars, shareVars, archived, written>>

\* the local read stream emits 'error': line 172 rejects
LocalError ==
    /\ pc = "upWaitLocal"
    /\ localEvents' = localEvents \cup { "error" }
    /\ Throw("TransferFailed", "transport")
    /\ UNCHANGED <<clientVars, calls, sessions, files, noCompress, spec, ops,
                   zipVars, existsCalls, existsResult, createCalls, remoteDirs,
                   remoteFiles, remoteEvents, remoteListening, lost, uploaded,
                   shareVars,
                   traceVars>>

\* the local read stream emits 'close': line 172 resolves, and lines 175-177
\* attach the listeners of the remote stream
LocalClose ==
    /\ pc = "upWaitLocal"
    /\ localEvents' = localEvents \cup { "close" }
    /\ remoteListening' = TRUE
    /\ pc' = "upWaitRemote"
    /\ UNCHANGED <<clientVars, calls, sessions, files, noCompress, spec, ops,
                   result, failedAt, zipVars, existsCalls, existsResult,
                   createCalls, remoteDirs, remoteFiles, remoteEvents, lost,
                   uploaded, shareVars,
                   traceVars>>

\* the remote write stream is open: from line 165 until upload ends
RemoteOpen == pc \in { "upWaitLocal", "upWaitRemote" }

\* the remote write stream emits 'error'.  With the listener of line 176
\* attached the promise rejects.  With none attached the event is gone; the
\* unhandled 'error' may end the process.
RemoteError ==
    /\ RemoteOpen
    /\ remoteEvents = {}
    /\ remoteEvents' = remoteEvents \cup { "error" }
    /\ IF remoteListening
       THEN /\ Throw("TransferFailed", "transport")
            /\ UNCHANGED lost
       ELSE /\ lost' = lost \cup { "remoteError" }
            /\ pc' \in { pc, "crashed" }
            /\ UNCHANGED <<result, failedAt>>
    /\ UNCHANGED <<clientVars, calls, sessions, files, noCompress, spec, ops,
                   zipVars, existsCalls, existsResult, createCalls, remoteDirs,
                   remoteFiles, localEvents, remoteListening, uploaded,
                   shareVars,
                   traceVars>>

\* the remote write stream emits 'close'.  With the listener of line 176
\* attached the promise resolves and upload returns remoteFilePath (line
\* 179).  With none attached the event is gone.
RemoteClose ==
    /\ RemoteOpen
    /\ "close" \notin remoteEvents
    /\ remoteEvents' = remoteEvents \cup { "close" }
    /\ remoteFiles' = IF "error" \in remoteEvents THEN remoteFiles
                      ELSE remoteFiles \cup { guid }
    /\ IF remoteListening
       THEN /\ uploaded' = TRUE
            /\ paths' = [paths EXCEPT !.returned = paths.put]
            /\ pc' = "share"
            /\ UNCHANGED lost
       ELSE /\ lost' = lost \cup { "remoteClose" }
            /\ UNCHANGED <<pc, uploaded, paths>>
    /\ UNCHANGED <<clientVars, calls, sessions, files, noCompress, spec, ops,
                   result, failedAt, zipVars, existsCalls, existsResult,
                   createCalls, remoteDirs, localEvents, remoteListening,
                   shareVars, archived, written>>

\* lines 182-210: shareFile: the request is sent; fetch rejects, or the body
\* of the response is read and parsed whatever the status is
ShareFile ==
    /\ pc = "share"
    /\ ops' = ops \cup { "share" }
    /\ shareRequests' = shareRequests + 1
    /\ paths' = [paths EXCEPT !.shared = paths.returned]
    /\ \/ /\ Throw("ShareRequestFailed", "share")
          /\ UNCHANGED <<shareBody, httpStatus>>
       \/ /\ shareBody' \in PipelineBodies
          /\ httpStatus' \in HttpStatuses
          /\ result' = ParseShare(shareBody')
          /\ failedAt' = IF result'.kind = "error" THEN "share" ELSE "none"
          /\ pc' = "done"
    /\ UNCHANGED <<clientVars, calls, sessions, files, noCompress, spec,
                   zipVars, uploadVars, archived, written>>

Next ==
    \/ Construct
    \/ UploadFiles
    \/ ZipMkdir
    \/ ZipLoop
    \/ CopyDone
    \/ CopyFail
    \/ StrayCopyEnds
    \/ ZipJoin
    \/ ZipStart
    \/ ZipFinalized
    \/ ZipStreamError
    \/ ZipStreamClose
    \/ ZipStat
    \/ UpExists
    \/ UpCreate
    \/ UpStartTransfer
    \/ LocalError
    \/ LocalClose
    \/ RemoteError
    \/ RemoteClose
    \/ ShareFile

Spec == Init /\ [][Next]_vars

(***************************************************************************)
(* Properties of the pipeline (Spec).                                      *)
(***************************************************************************)
\* C1: in every terminal state reached after a successful transfer, whether
\* the share succeeded or failed, the local archive file no longer exists.
C1_ArchiveDeleted ==
    (pc = "done" /\ uploaded) => guid \notin archives

\* C3: every invocation of uploadFiles uses a fresh session identifier: no
\* two invocations share one.
C3_FreshSession ==
    \A i, j \in 1..Len(sessions) : i # j => sessions[i] # sessions[j]

\* C4: upload returns the remote path only when no stream emitted 'error',
\* whatever the order of the events, and only after both streams' 'close'.
C4_StreamErrorFailsUpload ==
    uploaded =>
        /\ "error" \notin (localEvents \cup remoteEvents)
        /\ "close" \in localEvents
        /\ "close" \in remoteEvents

\* the stage an operation belongs to, and the order of the stages
StageOf(op) ==
    IF op \in { "mkdir", "copy", "join", "readdir", "compress", "statZip" }
    THEN "archive"
    ELSE IF op \in { "exists", "createDirectory", "statUpload", "put" }
    THEN "transport"
    ELSE "share"

Rank(stage) ==
    CASE stage = "resolve" -> 1
      [] stage = "archive" -> 2
      [] stage = "transport" -> 3
      [] stage = "share" -> 4

OpsOf(stage) == { op \in ops : StageOf(op) = stage }

\* zipFiles returned: every copy is done and the archive stream closed
ArchiveReturned ==
    /\ Len(copies) = Len(spec.specs)
    /\ \A k \in 1..Len(copies) : copies[k].st = "done"
    /\ zipEvents = { "close" }
    /\ "statZip" \in ops

\* C5: the stages run in the order uploadSpec, zipFiles, upload, shareFile;
\* once a stage has thrown no operation of a later stage is performed; and
\* the caller gets a URL or an error.
C5_StagesInOrder ==
    /\ failedAt # "none" =>
           \A op \in ops : Rank(StageOf(op)) <= Rank(failedAt)
    /\ OpsOf("archive") # {} => spec.err = "none"
    /\ OpsOf("transport") # {} => ArchiveReturned
    /\ OpsOf("share") # {} => uploaded
    /\ pc = "done" =>
           /\ result.kind \in { "url", "error" }
           /\ result.kind = "url" <=> failedAt = "none"
           /\ result.kind = "url" => "share" \in ops

\* upload threw after the archive was built and put was started, and no
\* share request was made
C5_Witness ==
    /\ pc = "done"
    /\ failedAt = "transport"
    /\ "put" \in ops
    /\ "share" \notin ops

\* C6: upload asks exists once, calls createDirectory only when exists said
\* false, and when the directory is there it goes on to the transfer without
\* createDirectory and without failing.
C6_IdempotentEnsure ==
    /\ existsCalls <= 1
    /\ OpsOf("transport") # {} => existsCalls = 1
    /\ createCalls <= 1
    /\ createCalls = 1 => existsResult = "false"
    /\ existsResult = "true" =>
           /\ createCalls = 0
           /\ ~(failedAt = "transport" /\ "statUpload" \notin ops)
           /\ pc \notin { "upExists", "upCreate" }

\* a second upload on the session of the first, whose remote directory
\* exists, has started its transfer without createDirectory
C6_Witness ==
    /\ calls = 2
    /\ sessions[1] = sessions[2]
    /\ existsResult = "true"
    /\ createCalls = 0
    /\ "put" \in ops

\* C7: when no compression is asked for, more than one UploadSpec makes the
\* invocation fail with IncompatibleMode, and exactly one is uploaded from
\* its absolutePath with no staging copy.
C7_NoCompressionMode ==
    (noCompress /\ spec.err = "none") =>
        /\ (Len(spec.specs) > 1 /\ pc = "done") =>
               result = Failure("IncompatibleMode")
        /\ Len(spec.specs) = 1 => copies = <<>>

(***************************************************************************)
(* Properties of uploadSpec (SpecPaths).                                   *)
(***************************************************************************)
\* the directory names of an absolute path, in order
Segments(p) == SelectSeq(Split(p), LAMBDA seg : seg # <<>>)

\* file lies below root, by whole path segments
IsStrictDescendant(file, root) ==
    LET fsegs == Segments(file)
        rsegs == Segments(root)
    IN  /\ Len(rsegs) < Len(fsegs)
        /\ SubSeq(fsegs, 1, Len(rsegs)) = rsegs

RootValid == ExistsSync(rootDirectory) /\ IsDirectory(rootDirectory)
ResolvedRoot == Resolve(Normalize(rootDirectory))
Resolved(i) == Resolve(Normalize(files[i]))
AllExist == \A i \in 1..Len(files) : ExistsSync(files[i])

\* C2: a non-directory candidate that is not a strict descendant of the root
\* makes uploadSpec fail with PathEscapesRoot, and every UploadSpec returned
\* has an absolutePath strictly below the resolved root.
C2_PathContainment ==
    (pc = "pathsDone" /\ RootValid) =>
        /\ ( ( /\ AllExist
               /\ \E i \in 1..Len(files) :
                      /\ ~IsDirectory(files[i])
                      /\ ~IsStrictDescendant(Resolved(i), ResolvedRoot) )
             => spec.err = "PathEscapesRoot" )
        /\ ( spec.err = "none" =>
                 \A k \in 1..Len(spec.specs) :
                     IsStrictDescendant(spec.specs[k].absolutePath,
                                        ResolvedRoot) )

AllStrictlyInside ==
    \A i \in 1..Len(files) : IsStrictDescendant(Resolved(i), ResolvedRoot)

\* C8: when all candidates exist and lie strictly inside the root, uploadSpec
\* returns one UploadSpec per non-directory candidate, in the input's order.
C8_OnePerFileInOrder ==
    (pc = "pathsDone" /\ RootValid /\ AllExist /\ AllStrictlyInside) =>
        LET kept == SelectSeq(files, LAMBDA f : ~IsDirectory(f))
        IN  /\ spec.err = "none"
            /\ Len(spec.specs) = Len(kept)
            /\ \A k \in 1..Len(kept) :
                   spec.specs[k].absolutePath = Resolve(Normalize(kept[k]))

\* a directory candidate was skipped and the file after it was kept
C8_Witness ==
    /\ pc = "pathsDone" /\ RootValid /\ AllExist /\ AllStrictlyInside
    /\ Len(files) = 2
    /\ IsDirectory(files[1]) /\ ~IsDirectory(files[2])
    /\ Len(spec.specs) = 1

\* path.relative(root, file) in segments: up from root to the common
\* ancestor, then down to file
RelativeSegments(root, file) ==
    LET rsegs == Segments(root)
        fsegs == Segments(file)
        same(n) == SubSeq(rsegs, 1, n) = SubSeq(fsegs, 1, n)
        ns == { n \in 0..Len(rsegs) : n <= Len(fsegs) /\ same(n) }
        common == CHOOSE n \in ns : \A m \in ns : m <= n
    IN  [k \in 1..(Len(rsegs) - common) |-> DotDot]
            \o SubSeq(fsegs, common + 1, Len(fsegs))

\* C9: every uploadPath is the artifact name joined with the candidate's path
\* relative to the resolved root, so it starts with the artifact name and
\* continues with the candidate's segments below the root.
C9_UploadPathIsRelative ==
    (pc = "pathsDone" /\ spec.err = "none") =>
        \A k \in 1..Len(spec.specs) :
            LET rel == RelativeSegments(ResolvedRoot,
                                        spec.specs[k].absolutePath)
            IN  /\ spec.specs[k].uploadPath =
                       JoinSegs(NormSegs(<<artifact>> \o rel, 1, <<>>, FALSE))
                /\ Split(spec.specs[k].uploadPath)[1] = artifact

(***************************************************************************)
(* Properties of the share parse (SpecShare).                              *)
(***************************************************************************)
\* the text between the first <url> that is closed and the first </url>
\* after it; <<>> when there is no such tag
FirstUrlTag(body) ==
    LET opens == { i \in 1..Len(body) :
                       /\ body[i] = UrlOpen
                       /\ \E j \in (i + 1)..Len(body) : body[j] = UrlClose }
    IN  IF opens = {} THEN <<>>
        ELSE LET i == CHOOSE o \in opens : \A q \in opens : o <= q
                 closes == { j \in (i + 1)..Len(body) : body[j] = UrlClose }
                 j == CHOOSE c \in closes : \A d \in closes : c <= d
             IN  <<SubSeq(body, i + 1, j - 1)>>

\* C10: shareFile returns exactly the text enclosed by the first
\* <url>...</url> tag of the body, whatever the status and the rest of the
\* body, and fails with ShareParseFailed when there is no tag or it is empty.
C10_FirstUrlTag ==
    pc = "parseDone" =>
        LET tag == FirstUrlTag(shareBody)
        IN  IF tag = <<>> \/ tag[1] = <<>>
            THEN result = Failure("ShareParseFailed")
            ELSE result = [kind |-> "url", err |-> "none", url |-> tag[1]]

(***************************************************************************)
(* Properties of the pipeline that rest on uploadSpec (Spec).              *)
(***************************************************************************)
\* uploadSpec has run in the invocation the state describes
Resolving == spec.err # "unset"

\* the invocation made nothing: no staging directory, no copy, no archive,
\* no remote directory, no transfer, no share request
NothingProduced ==
    /\ ops = {}
    /\ copies = <<>>
    /\ existsCalls = 0 /\ createCalls = 0 /\ shareRequests = 0
    /\ ~uploaded

PassBefore(i) ==
    \A k \in 1..(i - 1) :
        /\ ExistsSync(files[k])
        /\ IsDirectory(files[k]) \/ StartsWith(Resolved(k), ResolvedRoot)

NamedRemotePath(g, art, nc) ==
    RemoteFileDir(g) \o <<"/">> \o art
        \o (IF nc THEN <<>> ELSE <<".", "z", "i", "p">>)

\* exists answered true, or createDirectory has completed
ContainerKnown ==
    \/ existsResult = "true"
    \/ (createCalls > 0 /\ guid \in remoteDirs)

\* C12: the artifact is written to /artifacts/<session-id>/<artifactName>,
\* with ".zip" appended only when the caller asked for compression; the write
\* starts only once the container is known to exist; upload returns the path
\* it wrote to, and that path is the one the share request names.
C12_RemotePath ==
    /\ paths.put # <<>> =>
           /\ paths.put = NamedRemotePath(guid, artifact, noCompress)
           /\ ContainerKnown
    /\ paths.returned # <<>> => paths.returned = paths.put
    /\ paths.shared # <<>> =>
           /\ paths.shared = paths.returned
           /\ paths.shared # <<>>

\* the parts of C12 the code keeps whatever the caller asked for
C12_PathAlwaysZip ==
    /\ paths.put # <<>> =>
           /\ paths.put = NamedRemotePath(guid, artifact, FALSE)
           /\ ContainerKnown
    /\ paths.returned # <<>> => paths.returned = paths.put
    /\ paths.shared # <<>> =>
           /\ paths.shared = paths.returned
           /\ paths.shared # <<>>

(***************************************************************************)
(* C13: the copies are joined before compression.                          *)
(***************************************************************************)
\* the invocation is past line 131
PastJoin ==
    \/ pc \in { "zipReaddir", "zipFinalize", "zipWait", "zipStat", "upExists",
                "upCreate", "upStat", "upWaitLocal", "upWaitRemote", "share" }
    \/ ops \cap { "readdir", "compress", "statZip" } # {}
    \/ OpsOf("transport") # {}
    \/ OpsOf("share") # {}

\* C13: compression does not start until every copy the invocation
\* dispatched has ended, one copy for each UploadSpec; when a copy has failed
\* the stage throws, and neither compression nor upload nor share is started
\* in that invocation.
C13_CopyBarrier ==
    /\ PastJoin =>
           /\ Len(copies) = Len(spec.specs)
           /\ \A k \in 1..Len(copies) : copies[k].st = "done"
    /\ AnyCopy("failed") =>
           /\ ~PastJoin
           /\ pc \in { "zipLoop", "zipJoin", "done", "crashed" }
           /\ pc = "done" => result = Failure("StagingFailed")

\* of two copies running at once one is done and the other failed, and the
\* invocation ended with StagingFailed at the join
C13_Witness ==
    /\ Len(copies) = 2
    /\ copies[1].st = "done" /\ copies[2].st = "failed"
    /\ Joined
    /\ pc = "done" /\ result = Failure("StagingFailed")

(***************************************************************************)
(* C14: the archive's write stream.                                        *)
(***************************************************************************)
\* zip returned to zipFiles
ZipReturned == pc = "zipStat" \/ "statZip" \in ops

\* C14: zip returns only after finalize() resolved and the write stream
\* closed; a write-stream error at any point, also before the listeners of
\* lines 147-149 are attached, makes zip fail with ArchiveFailed: once the
\* error has fired the invocation is not left waiting for the stream, it
\* ends with ArchiveFailed, and upload is never started.
C14_ArchiveFailedOnError ==
    /\ ZipReturned => (zipListening /\ zipEvents = { "close" })
    /\ "error" \in zipEvents =>
           /\ pc \in { "zipFinalize", "done" }
           /\ pc = "done" => result = Failure("ArchiveFailed")
           /\ OpsOf("transport") = {}

\* the parts of C14 the code keeps
C14_SuccessAfterBoth ==
    /\ ZipReturned => (zipListening /\ zipEvents = { "close" })
    /\ "error" \in zipEvents =>
           /\ ~ZipReturned
           /\ OpsOf("transport") = {}
           /\ pc = "done" => result = Failure("ArchiveFailed")

(***************************************************************************)
(* C15: the network operations of one invocation.                          *)
(***************************************************************************)
\* the order exists, createDirectory (if any), upload stream, share request,
\* each issued once the one before it has answered
NetworkInOrder ==
    /\ existsCalls <= 1 /\ createCalls <= 1 /\ shareRequests <= 1
    /\ createCalls = 1 => (existsCalls = 1 /\ existsResult = "false")
    /\ "put" \in ops =>
           /\ existsCalls = 1
           /\ existsResult = "false" => (createCalls = 1 /\ guid \in remoteDirs)
    /\ RemoteOpen => shareRequests = 0
    /\ shareRequests = 1 => ("put" \in ops /\ uploaded)
    /\ (pc = "done" /\ uploaded) => shareRequests = 1

\* both streams of the upload have closed and neither emitted 'error'
BothClosedClean ==
    /\ "close" \in localEvents /\ "close" \in remoteEvents
    /\ "error" \notin (localEvents \cup remoteEvents)

\* C15: the network operations of one invocation run one after the other in
\* the order exists, createDirectory (if any), upload stream, share request;
\* one share request is made for each upload that succeeded, and it is made
\* only after both upload streams closed without error.
C15_SequentialNetwork ==
    /\ NetworkInOrder
    /\ shareRequests = 1 => BothClosedClean

\* the parts of C15 the code keeps: the order, the single share request, and
\* both 'close' events before it
C15_OrderAndSingleShare ==
    /\ NetworkInOrder
    /\ shareRequests = 1 =>
           ("close" \in localEvents /\ "close" \in remoteEvents)

(***************************************************************************)
(* C16: termination.                                                       *)
(***************************************************************************)
\* the event the running invocation awaits can still come: the operation it
\* awaits is under way, or the stream it listens to has not emitted its last
\* event
EventDue ==
    \/ pc \in { "zipMkdir", "zipLoop", "zipReaddir", "zipFinalize", "zipStat",
                "upExists", "upCreate", "upStat", "upWaitLocal", "share" }
    \/ pc = "zipJoin" /\ Len(copies) > 0
    \/ pc = "zipWait" /\ zipEvents = {}
    \/ pc = "upWaitRemote" /\ "close" \notin remoteEvents

\* C16: an invocation of uploadFiles ends with a URL or an error when every
\* operation answers and every stream emits its events, in whatever order:
\* an invocation that has not ended is never left awaiting an event that has
\* already fired, and one that has ended has a URL or an error.
C16_Terminates ==
    /\ ~Settled => EventDue
    /\ pc = "done" => result.kind \in { "url", "error" }

\* what holds: an invocation stops short of a result only where a stream's
\* event came before its listener, or an unhandled event ended the process
C16_StuckOnlyOnLostEvent ==
    /\ (~Settled /\ ~EventDue) =>
           \/ pc = "crashed"
           \/ pc = "zipWait" /\ "zipError" \in lost
           \/ pc = "upWaitRemote" /\ "remoteClose" \in lost
    /\ pc = "done" => result.kind \in { "url", "error" }

(***************************************************************************)
(* C17: what the staging directory holds when it is compressed.            *)
(***************************************************************************)
\* the uploadPaths of the invocation's UploadSpec sequence
SpecPaths17 == { spec.specs[k].uploadPath : k \in 1..Len(spec.specs) }

\* the invocations made so far with the session identifier of this one
UsesOfSession == { i \in 1..Len(sessions) : sessions[i] = guid }

\* C17: when compression starts the staging artifact directory holds the
\* files of the invocation's UploadSpec sequence, each at its uploadPath, and
\* nothing else, after any sequence of uploadFiles calls.
C17_StagingExact ==
    "compress" \in ops => archived = SpecPaths17

\* what holds: the archive has every file of the invocation, and nothing else
\* when no earlier invocation used the session
C17_StagingCovers ==
    "compress" \in ops =>
        /\ SpecPaths17 \subseteq archived
        /\ Cardinality(UsesOfSession) = 1 => archived = SpecPaths17

(***************************************************************************)
(* C18: the caller's files.                                                *)
(***************************************************************************)
\* the caller's files and directories: the file system the candidates and the
\* root are taken from
CallerOwned == Files \cup Dirs

\* p is below the directory d
Below(p, d) == StartsWith(p, d \o <<Sep>>)

\* C18: no operation of the pipeline deletes, moves or writes a file of the
\* caller, for every input and on every path of uploadFiles: the pipeline has
\* no operation that deletes or moves; what it creates and writes lies below
\* its temporary directory, is no file or directory of the caller and is not
\* below the root; and no copy has its source as its destination.
C18_SourcesUntouched ==
    /\ written \cap CallerOwned = {}
    /\ \A p \in written :
           /\ Below(p, Tmpdir)
           /\ ~Below(p, Resolve(Normalize(rootDirectory)))
    /\ \A k \in 1..Len(copies) :
           copies[k].to # spec.specs[k].absolutePath

\* the artifact name has no ".." segment
PlainName == \A i \in 1..Len(Split(artifact)) : Split(artifact)[i] # DotDot

\* what holds: with an artifact name that does not climb, the caller's files
\* are only read
C18_PlainNameUntouched == PlainName => C18_SourcesUntouched
====
